---------------------------- MODULE Spec2Model ----------------------------
(***************************************************************************)
(* protoc-gen-cppstream (tools/streaming_proto/cpp/main.cpp): the plugin   *)
(* reads a CodeGeneratorRequest, renders one header per eligible .proto    *)
(* file and writes a CodeGeneratorResponse, unless errors were recorded.   *)
(*                                                                         *)
(* Text is modelled as what the stringstream holds: a sequence of finished *)
(* lines plus the line being written, each a sequence of atoms.  An atom   *)
(* is a string literal of the source ("namespace ", " {") or one character *)
(* of a name or of a formatted number.  The stream also carries the        *)
(* formatting state that operator<< reads: basefield, fill and width.      *)
(***************************************************************************)
EXTENDS Integers, Sequences, FiniteSets, Bags, TLC

(***************************************************************************)
(* Bounds of the checked inputs.                                           *)
(***************************************************************************)
MaxFiles == 2
MaxDepth == 2
MaxFields == 2
MaxValues == 3
MaxSegments == 2

(***************************************************************************)
(* Characters and strings.                                                 *)
(***************************************************************************)
LowerCase == <<"a","b","c","d","e","f","g","h","i","j","k","l","m",
               "n","o","p","q","r","s","t","u","v","w","x","y","z">>
UpperCase == <<"A","B","C","D","E","F","G","H","I","J","K","L","M",
               "N","O","P","Q","R","S","T","U","V","W","X","Y","Z">>
HexDigits == <<"0","1","2","3","4","5","6","7","8","9","a","b","c","d","e","f">>

Range(s) == {s[k] : k \in 1..Len(s)}

IndexIn(s, c) == CHOOSE k \in 1..Len(s) : s[k] = c

IsLower(c) == c \in Range(LowerCase)
IsUpper(c) == c \in Range(UpperCase)
ToUpper(c) == IF IsLower(c) THEN UpperCase[IndexIn(LowerCase, c)] ELSE c

\* std::string::find(needle) != npos
Contains(str, needle) ==
    \E k \in 0..(Len(str) - Len(needle)) :
        SubSeq(str, k + 1, k + Len(needle)) = needle

\* string_utils: replace_string(str, replace, with) on single characters
replace_string(str, old, new) ==
    [k \in 1..Len(str) |-> IF str[k] = old THEN new ELSE str[k]]

\* string_utils: make_constant_name -- upper-case words joined by '_'
RECURSIVE make_constant_name_from(_, _, _)
make_constant_name_from(str, k, underscore_next) ==
    IF k > Len(str) THEN <<>>
    ELSE LET c == str[k] IN
         IF IsUpper(c)
         THEN (IF underscore_next THEN <<"_">> ELSE <<>>) \o <<c>>
                  \o make_constant_name_from(str, k + 1, FALSE)
         ELSE IF IsLower(c)
         THEN <<ToUpper(c)>> \o make_constant_name_from(str, k + 1, TRUE)
         ELSE IF c = "_"
         THEN <<c>> \o make_constant_name_from(str, k + 1, FALSE)
         ELSE <<c>> \o make_constant_name_from(str, k + 1, underscore_next)

make_constant_name(str) == make_constant_name_from(str, 1, FALSE)

\* string_utils: stripPrefix -- the remainder when str begins with prefix
stripPrefix(str, prefix) ==
    IF Len(str) >= Len(prefix) /\ SubSeq(str, 1, Len(prefix)) = prefix
    THEN SubSeq(str, Len(prefix) + 1, Len(str))
    ELSE str

\* string_utils: split(str, delimiter), empty parts dropped
RECURSIVE split_from(_, _, _, _)
split_from(str, delimiter, k, part) ==
    IF k > Len(str) THEN (IF part = <<>> THEN <<>> ELSE <<part>>)
    ELSE IF str[k] = delimiter
    THEN (IF part = <<>> THEN <<>> ELSE <<part>>)
             \o split_from(str, delimiter, k + 1, <<>>)
    ELSE split_from(str, delimiter, k + 1, Append(part, str[k]))

split(str, delimiter) == split_from(str, delimiter, 1, <<>>)

\* stream_proto_utils.h: const string INDENT = "    "
INDENT == "    "

(***************************************************************************)
(* The stringstream.                                                       *)
(***************************************************************************)
\* stringstream text;  (a fresh stream: dec, fill ' ', width 0)
NewStream == [lines |-> <<>>, cur |-> <<>>, flags |-> "dec", fill |-> " ", width |-> 0]

\* text << "literal" or a string: appended as is, width() is reset
Put(text, atoms) == [text EXCEPT !.cur = @ \o atoms, !.width = 0]

\* text << endl
Endl(text) == [text EXCEPT !.lines = Append(@, text.cur), !.cur = <<>>]

\* The statements of a function run in program order: InOrder(<<t1, .., tk>>)
\* holds once every intermediate stream has been computed, first to last.
InOrder(streams) == \A k \in 1..Len(streams) : streams[k].width >= 0

RECURSIVE DecDigits(_)
DecDigits(n) ==
    IF n < 10 THEN <<HexDigits[n + 1]>>
    ELSE Append(DecDigits(n \div 10), HexDigits[(n % 10) + 1])

RECURSIVE HexDigitsOf(_)
HexDigitsOf(n) ==
    IF n < 16 THEN <<HexDigits[n + 1]>>
    ELSE Append(HexDigitsOf(n \div 16), HexDigits[(n % 16) + 1])

RECURSIVE Repeat(_, _)
Repeat(c, n) == IF n <= 0 THEN <<>> ELSE <<c>> \o Repeat(c, n - 1)

\* exactly eight hex digits of a value below 2^31
Hex8(n) == LET d == HexDigitsOf(n) IN Repeat("0", 8 - Len(d)) \o d

RECURSIVE StripZeros(_)
StripZeros(d) ==
    IF Len(d) > 1 /\ d[1] = "0" THEN StripZeros(Tail(d)) ELSE d

\* num_put: right-adjusted in width() with fill(), then width(0)
PutNumber(text, digits) ==
    [text EXCEPT !.cur = @ \o Repeat(text.fill, text.width - Len(digits)) \o digits,
                 !.width = 0]

\* text << (int) n: decimal with sign, or the 32-bit two's complement in hex
IntDigits(flags, n) ==
    IF flags = "hex"
    THEN IF n >= 0 THEN HexDigitsOf(n)
         ELSE LET low == Hex8((2147483647 + n) + 1)
              IN  <<HexDigits[IndexIn(HexDigits, low[1]) + 8]>> \o Tail(low)
    ELSE IF n >= 0 THEN DecDigits(n) ELSE <<"-">> \o DecDigits(-n)

PutInt(text, n) == PutNumber(text, IntDigits(text.flags, n))

\* A uint64_t is [hi |-> bits 32..63, lo |-> bits 0..31], both below 2^31.
\* Its decimal digits come from dividing the four 16-bit limbs by ten.
Limbs(v) == <<v.hi \div 65536, v.hi % 65536, v.lo \div 65536, v.lo % 65536>>

RECURSIVE LimbsDiv10(_, _)
LimbsDiv10(limbs, rem) ==
    IF limbs = <<>> THEN [quot |-> <<>>, rem |-> rem]
    ELSE LET x == rem * 65536 + Head(limbs)
             rest == LimbsDiv10(Tail(limbs), x % 10)
         IN  [quot |-> <<x \div 10>> \o rest.quot, rem |-> rest.rem]

RECURSIVE LimbsDec(_)
LimbsDec(limbs) ==
    LET d == LimbsDiv10(limbs, 0) IN
    IF \A k \in 1..Len(d.quot) : d.quot[k] = 0
    THEN <<HexDigits[d.rem + 1]>>
    ELSE Append(LimbsDec(d.quot), HexDigits[d.rem + 1])

U64Digits(flags, v) ==
    IF flags = "hex"
    THEN StripZeros(Hex8(v.hi) \o Hex8(v.lo))
    ELSE LimbsDec(Limbs(v))

PutU64(text, v) == PutNumber(text, U64Digits(text.flags, v))

(***************************************************************************)
(* stream_proto_utils: the collaborators main.cpp calls.                   *)
(***************************************************************************)
\* FieldDescriptorProto::Type, TYPE_DOUBLE = 1 .. TYPE_SINT64 = 18
ProtoTypeNames == <<"double", "float", "int64", "uint64", "int32", "fixed64",
                    "fixed32", "bool", "string", "group", "message", "bytes",
                    "uint32", "enum", "sfixed32", "sfixed64", "sint32", "sint64">>

get_proto_type(field) ==
    IF field.type \in 1..Len(ProtoTypeNames)
    THEN <<ProtoTypeNames[field.type]>> ELSE <<"void">>

\* FIELD_COUNT_SINGLE, FIELD_COUNT_REPEATED, FIELD_COUNT_PACKED (bits 40..)
FieldCount(field) ==
    IF field.packed THEN 5
    ELSE IF field.label = "repeated" THEN 2 ELSE 1

\* number in bits 0..31, type in bits 32..39, count in bits 40..
get_field_id(field) ==
    [hi |-> (IF field.type \in 1..Len(ProtoTypeNames) THEN field.type ELSE 0)
                + 256 * FieldCount(field),
     lo |-> field.number]

\* should_generate_for_file: the file is one of request.file_to_generate
should_generate_for_file(req, name) ==
    \E k \in 1..Len(req.file_to_generate) : req.file_to_generate[k] = name

(***************************************************************************)
(* main.cpp                                                                *)
(***************************************************************************)
GENERATE_MAPPING == TRUE

\* a make_filename that forgets the suffix
make_filename_bare(file_descriptor) == file_descriptor.name

make_filename(file_descriptor) == file_descriptor.name \o <<".", "h">>

\* write_enum, lines 26-31: one constant per value
RECURSIVE write_enum_constants(_, _, _, _)
write_enum_constants(text, enu, indent, i) ==
    IF i > Len(enu.value) THEN text
    ELSE LET value == enu.value[i]
             t1 == Put(text, indent \o <<"const int ">>
                               \o make_constant_name(value.name) \o <<" = ">>)
             t2 == Endl(Put(PutInt(t1, value.number), <<";">>))
         IN  write_enum_constants(t2, enu, indent, i + 1)

\* write_enum, lines 38-40: the display-name table's entries
RECURSIVE write_enum_names(_, _, _, _, _)
write_enum_names(text, enu, indent, prefix, i) ==
    IF i > Len(enu.value) THEN text
    ELSE write_enum_names(
             Endl(Put(text, indent \o <<INDENT, "\"">>
                              \o stripPrefix(enu.value[i].name, prefix)
                              \o <<"\",">>)),
             enu, indent, prefix, i + 1)

\* a values table written from the last value to the first
RECURSIVE write_enum_values_reversed(_, _, _, _)
write_enum_values_reversed(text, enu, indent, i) ==
    IF i > Len(enu.value) THEN text
    ELSE write_enum_values_reversed(
             Endl(Put(text, indent \o <<INDENT>>
                              \o make_constant_name(enu.value[Len(enu.value) + 1 - i].name)
                              \o <<",">>)),
             enu, indent, i + 1)

\* write_enum, lines 43-45: the values table's entries
RECURSIVE write_enum_values(_, _, _, _)
write_enum_values(text, enu, indent, i) ==
    IF i > Len(enu.value) THEN text
    ELSE write_enum_values(
             Endl(Put(text, indent \o <<INDENT>>
                              \o make_constant_name(enu.value[i].name)
                              \o <<",">>)),
             enu, indent, i + 1)

\* a write_enum that wraps the enum in a namespace of its own
write_enum_scoped(text, enu, indent) ==
    LET indented == Append(indent, INDENT)
        t1 == Endl(Put(text, indent \o <<"// enum ">> \o enu.name))
        t2 == Endl(Put(t1, indent \o <<"namespace ">> \o enu.name \o <<" {">>))
        t3 == write_enum_constants(t2, enu, indented, 1)
        t4 == Endl(Put(t3, indent \o <<"} //">> \o enu.name))
    IN  IF InOrder(<<t1, t2, t3, t4>>) THEN Endl(t4) ELSE text

write_enum(text, enu, indent) ==
    LET N == Len(enu.value)
        t1 == Endl(Put(text, indent \o <<"// enum ">> \o enu.name))
        t2 == write_enum_constants(t1, enu, indent, 1)
        name == make_constant_name(enu.name)
        prefix == name \o <<"_">>
        t3 == Endl(Put(PutInt(Put(t2, indent \o <<"static const int _ENUM_">>
                                        \o name \o <<"_COUNT = ">>), N),
                       <<";">>))
        t4 == Endl(Put(PutInt(Put(t3, indent \o <<"static const char* _ENUM_">>
                                        \o name \o <<"_NAMES[">>), N),
                       <<"] = {">>))
        t5 == write_enum_names(t4, enu, indent, prefix, 1)
        t6 == Endl(Put(t5, indent \o <<"};">>))
        t7 == Endl(Put(PutInt(Put(t6, indent \o <<"static const int _ENUM_">>
                                        \o name \o <<"_VALUES[">>), N),
                       <<"] = {">>))
        t8 == write_enum_values(t7, enu, indent, 1)
        t9 == Endl(Put(t8, indent \o <<"};">>))
    IN  IF InOrder(<<t1, t2, t3, t4, t5, t6, t7, t8, t9>>)
        THEN Endl(IF GENERATE_MAPPING THEN t9 ELSE t2)
        ELSE text

\* a write_field that leaves the stream in hex: text.flags(fmt) is missing
write_field_flags_kept(text, field, indent) ==
    LET optional_comment == IF field.label = "optional" THEN <<"optional ">> ELSE <<>>
        repeated_comment == IF field.label = "repeated" THEN <<"repeated ">> ELSE <<>>
        packed_comment == IF field.packed THEN <<" [packed=true]">> ELSE <<>>
        t1 == Put(text, indent \o <<"// ">> \o optional_comment \o repeated_comment
                            \o get_proto_type(field) \o <<" ">> \o field.name \o <<" = ">>)
        t2 == Endl(Put(PutInt(t1, field.number), packed_comment \o <<";">>))
        t3 == Put(t2, indent \o <<"const uint64_t ">>
                          \o make_constant_name(field.name) \o <<" = 0x">>)
        t4 == PutU64([t3 EXCEPT !.fill = "0", !.width = 16, !.flags = "hex"],
                     get_field_id(field))
        t5 == Endl(Put(t4, <<"LL;">>))
    IN  IF InOrder(<<t1, t2, t3, t4, t5>>) THEN Endl(t5) ELSE text

write_field(text, field, indent) ==
    LET optional_comment == IF field.label = "optional" THEN <<"optional ">> ELSE <<>>
        repeated_comment == IF field.label = "repeated" THEN <<"repeated ">> ELSE <<>>
        proto_type == get_proto_type(field)
        packed_comment == IF field.packed THEN <<" [packed=true]">> ELSE <<>>
        t1 == Put(text, indent \o <<"// ">> \o optional_comment \o repeated_comment
                            \o proto_type \o <<" ">> \o field.name \o <<" = ">>)
        t2 == Endl(Put(PutInt(t1, field.number), packed_comment \o <<";">>))
        t3 == Put(t2, indent \o <<"const uint64_t ">>
                          \o make_constant_name(field.name) \o <<" = 0x">>)
        fmt == t3.flags
        \* setfill('0') << setw(16) << hex << get_field_id(field)
        t4 == PutU64([t3 EXCEPT !.fill = "0", !.width = 16, !.flags = "hex"],
                     get_field_id(field))
        t5 == [t4 EXCEPT !.flags = fmt]
        t6 == Endl(Put(t5, <<"LL;">>))
    IN  IF InOrder(<<t1, t2, t3, t4, t5, t6>>) THEN Endl(t6) ELSE text

\* write_message, lines 86-89
RECURSIVE write_message_enums(_, _, _, _)
write_message_enums(text, message, indented, i) ==
    IF i > Len(message.enum_type) THEN text
    ELSE write_message_enums(write_enum(text, message.enum_type[i], indented),
                             message, indented, i + 1)

\* write_message, lines 98-101
RECURSIVE write_message_fields(_, _, _, _)
write_message_fields(text, message, indented, i) ==
    IF i > Len(message.field) THEN text
    ELSE write_message_fields(write_field(text, message.field[i], indented),
                              message, indented, i + 1)

\* write_message, lines 107-109
RECURSIVE write_field_names(_, _, _, _)
write_field_names(text, message, indented, i) ==
    IF i > Len(message.field) THEN text
    ELSE write_field_names(
             Endl(Put(text, indented \o <<INDENT, "\"">>
                              \o message.field[i].name \o <<"\",">>)),
             message, indented, i + 1)

\* an ID table written from the last field to the first
RECURSIVE write_field_ids_reversed(_, _, _, _)
write_field_ids_reversed(text, message, indented, i) ==
    IF i > Len(message.field) THEN text
    ELSE write_field_ids_reversed(
             Endl(Put(text, indented \o <<INDENT>>
                              \o make_constant_name(
                                     message.field[Len(message.field) + 1 - i].name)
                              \o <<",">>)),
             message, indented, i + 1)

\* write_message, lines 112-114
RECURSIVE write_field_ids(_, _, _, _)
write_field_ids(text, message, indented, i) ==
    IF i > Len(message.field) THEN text
    ELSE write_field_ids(
             Endl(Put(text, indented \o <<INDENT>>
                              \o make_constant_name(message.field[i].name)
                              \o <<",">>)),
             message, indented, i + 1)

\* write_message, lines 103-116
write_field_tables(text, message, indented) ==
    LET N == Len(message.field)
        t1 == Endl(Put(PutInt(Put(text, indented
                                        \o <<"static const int _FIELD_COUNT = ">>), N),
                       <<";">>))
        t2 == Endl(Put(PutInt(Put(t1, indented
                                        \o <<"static const char* _FIELD_NAMES[">>), N),
                       <<"] = {">>))
        t3 == write_field_names(t2, message, indented, 1)
        t4 == Endl(Put(t3, indented \o <<"};">>))
        t5 == Endl(Put(PutInt(Put(t4, indented
                                        \o <<"static const uint64_t _FIELD_IDS[">>), N),
                       <<"] = {">>))
        t6 == write_field_ids(t5, message, indented, 1)
    IN  IF InOrder(<<t1, t2, t3, t4, t5, t6>>)
        THEN Endl(Endl(Put(t6, indented \o <<"};">>)))
        ELSE text

RECURSIVE write_message(_, _, _)

\* write_message, lines 92-95
RECURSIVE write_message_nested(_, _, _, _)
write_message_nested(text, message, indented, i) ==
    IF i > Len(message.nested_type) THEN text
    ELSE write_message_nested(write_message(text, message.nested_type[i], indented),
                              message, indented, i + 1)

\* a write_message that closes the scope before the nested messages
write_message_flattened(text, message, indent) ==
    LET indented == Append(indent, INDENT)
        t1 == Endl(Put(text, indent \o <<"// message ">> \o message.name))
        t2 == Endl(Put(t1, indent \o <<"namespace ">> \o message.name \o <<" {">>))
        t3 == write_message_enums(t2, message, indented, 1)
        t4 == write_message_fields(t3, message, indented, 1)
        t5 == IF GENERATE_MAPPING THEN write_field_tables(t4, message, indented) ELSE t4
        t6 == Endl(Endl(Put(t5, indent \o <<"} //">> \o message.name)))
        t7 == write_message_nested(t6, message, indent, 1)
    IN  IF InOrder(<<t1, t2, t3, t4, t5, t6, t7>>) THEN t7 ELSE text

\* a write_message that writes the fields before the nested messages
write_message_fields_first(text, message, indent) ==
    LET indented == Append(indent, INDENT)
        t1 == Endl(Put(text, indent \o <<"// message ">> \o message.name))
        t2 == Endl(Put(t1, indent \o <<"namespace ">> \o message.name \o <<" {">>))
        t3 == write_message_enums(t2, message, indented, 1)
        t4 == write_message_fields(t3, message, indented, 1)
        t5 == write_message_nested(t4, message, indented, 1)
        t6 == IF GENERATE_MAPPING THEN write_field_tables(t5, message, indented) ELSE t5
        t7 == Endl(Put(t6, indent \o <<"} //">> \o message.name))
    IN  IF InOrder(<<t1, t2, t3, t4, t5, t6, t7>>) THEN Endl(t7) ELSE text

write_message(text, message, indent) ==
    LET indented == Append(indent, INDENT)
        t1 == Endl(Put(text, indent \o <<"// message ">> \o message.name))
        t2 == Endl(Put(t1, indent \o <<"namespace ">> \o message.name \o <<" {">>))
        t3 == write_message_enums(t2, message, indented, 1)
        t4 == write_message_nested(t3, message, indented, 1)
        t5 == write_message_fields(t4, message, indented, 1)
        t6 == IF GENERATE_MAPPING THEN write_field_tables(t5, message, indented) ELSE t5
        t7 == Endl(Put(t6, indent \o <<"} //">> \o message.name))
    IN  IF InOrder(<<t1, t2, t3, t4, t5, t6, t7>>) THEN Endl(t7) ELSE text

(***************************************************************************)
(* The requests the plugin is run on.                                      *)
(***************************************************************************)
\* "experimental_allow_proto3_optional" (line 161)
FeatureToken == <<"e","x","p","e","r","i","m","e","n","t","a","l","_",
                  "a","l","l","o","w","_","p","r","o","t","o","3","_",
                  "o","p","t","i","o","n","a","l">>

Parameters == { <<>>,
                FeatureToken,
                <<"x", "=", "1", ",">> \o FeatureToken \o <<",", "y">>,
                SubSeq(FeatureToken, 1, Len(FeatureToken) - 1) }

EnumValuePool == << [name |-> <<"C","O","L","O","R","_","R","E","D">>, number |-> 16],
                    [name |-> <<"G","R","E","E","N">>, number |-> 0],
                    [name |-> <<"C","O","L","O","R","_","b","l","u","e">>, number |-> 16],
                    [name |-> <<"C","O","L","O","R","_">>, number |-> -1] >>

\* the k-th declared value; beyond the pool the names get a digit suffix
EnumValueAt(k) ==
    LET v == EnumValuePool[((k - 1) % Len(EnumValuePool)) + 1] IN
    IF k <= Len(EnumValuePool) THEN v
    ELSE [name |-> v.name \o DecDigits(k), number |-> v.number + k]

Color == <<"C","o","l","o","r">>
myKind == <<"m","y","K","i","n","d">>

EnumOf(nm, n) == [name |-> nm, value |-> [k \in 1..n |-> EnumValueAt(k)]]

FieldPool == << [name |-> <<"s","i","d","e","s">>, number |-> 1, type |-> 5,
                 label |-> "required", packed |-> FALSE],
                [name |-> <<"f","o","o","B","a","r">>, number |-> 16, type |-> 9,
                 label |-> "optional", packed |-> FALSE],
                [name |-> <<"i","d","s">>, number |-> 300, type |-> 3,
                 label |-> "repeated", packed |-> TRUE],
                [name |-> <<"x","_","y">>, number |-> 536870911, type |-> 11,
                 label |-> "repeated", packed |-> FALSE] >>

FieldAt(k) ==
    LET f == FieldPool[((k - 1) % Len(FieldPool)) + 1] IN
    IF k <= Len(FieldPool) THEN f
    ELSE [f EXCEPT !.name = @ \o DecDigits(k), !.number = 1000 + k]

FieldSeq(n) == [k \in 1..n |-> FieldAt(k)]

Message(nm, es, ns, fs) ==
    [name |-> nm, enum_type |-> es, nested_type |-> ns, field |-> fs]

MessageNames == { <<"F","o","o">>, <<"B","a","r">>}

\* (nested enums, number of fields) of the generated messages
LeafShapes == { << <<>>, 0 >>,
                << <<EnumOf(Color, MaxValues)>>, MaxFields >>,
                << <<EnumOf(myKind, 0), EnumOf(Color, 1)>>, 1 >> }
ParentShapes == { << <<>>, 0 >>,
                  << <<EnumOf(Color, MaxValues)>>, MaxFields >> }

Leaves == { Message(nm, sh[1], <<>>, FieldSeq(sh[2])) :
                nm \in MessageNames, sh \in LeafShapes }

BareLeaf == Message(<<"F","o","o">>, <<>>, <<>>, FieldSeq(1))

\* the message trees of depth at most d
RECURSIVE Messages(_)
Messages(d) ==
    IF d <= 1 THEN Leaves
    ELSE LET sub == Messages(d - 1)
             children == {<<x>> : x \in sub} \cup {<<x, BareLeaf>> : x \in Leaves}
         IN  sub \cup { Message(nm, sh[1], ns, FieldSeq(sh[2])) :
                            nm \in {<<"F","o","o">>}, sh \in ParentShapes,
                            ns \in children }

PackageSegments == << <<"a">>, <<"b","b">>, <<"c">>, <<"d">> >>

RECURSIVE Package(_)
Package(k) ==
    IF k = 0 THEN <<>>
    ELSE (IF k = 1 THEN <<>> ELSE Package(k - 1) \o <<".">>)
             \o PackageSegments[((k - 1) % Len(PackageSegments)) + 1]

FileNames == { <<"p","/","a",".","x">>, <<"b",".","x">> }

\* one file of every shape, requested, with the feature token as parameter
EmitterFiles ==
    { [name |-> <<"p","/","a",".","x">>, package |-> Package(k),
       enum_type |-> es, message_type |-> ms] :
          k \in 0..MaxSegments,
          es \in { <<>>, <<EnumOf(Color, MaxValues)>> },
          ms \in {<<>>} \cup {<<m>> : m \in Messages(MaxDepth)}
                        \cup {<<m, BareLeaf>> : m \in Leaves} }

EmitterRequests ==
    { [proto_file |-> <<f>>, file_to_generate |-> <<f.name>>,
       parameter |-> FeatureToken] : f \in EmitterFiles }

\* up to MaxFiles small files, any selection of them, any parameter
DriverFiles ==
    { [name |-> nm, package |-> Package(1), enum_type |-> <<>>,
       message_type |-> <<BareLeaf>>] : nm \in FileNames }

SeqsUpTo(S, n) == UNION { [1..k -> S] : k \in 0..n }

DriverRequests ==
    { [proto_file |-> fs, file_to_generate |-> gen, parameter |-> par] :
          fs \in SeqsUpTo(DriverFiles, MaxFiles),
          gen \in {<<>>} \cup {<<nm>> : nm \in FileNames}
                          \cup {<< <<"b",".","x">>, <<"p","/","a",".","x">> >>},
          par \in Parameters }

Requests == EmitterRequests \cup DriverRequests

(***************************************************************************)
(* The run of main.                                                        *)
(***************************************************************************)
VARIABLES
    pc,          \* where main (or the write_header_file it called) stands
    request,     \* CodeGeneratorRequest request
    parse_ok,    \* what request.ParseFromIstream(&cin) returned
    response,    \* CodeGeneratorResponse response
    ERRORS,      \* Errors.h: the process-wide error log
    i,           \* main's loop index
    text,        \* write_header_file: stringstream text
    header,      \* write_header_file: the include guard
    namespaces,  \* write_header_file: split(package, '.')
    it,          \* write_header_file: position of the namespace iterators
    n,           \* write_header_file: index of the enum and message loops
    cout,        \* the responses serialized to the output channel
    cerr,        \* the errors printed
    exit_status  \* main's return value, "running" until it returns

vars == <<pc, request, parse_ok, response, ERRORS, i, text, header, namespaces,
          it, n, cout, cerr, exit_status>>

\* CodeGeneratorResponse::FEATURE_PROTO3_OPTIONAL
FEATURE_PROTO3_OPTIONAL == 1

EmptyRequest == [proto_file |-> <<>>, file_to_generate |-> <<>>, parameter |-> <<>>]
EmptyResponse == [file |-> <<>>, supported_features |-> 0]

Init ==
    /\ pc = "start"
    /\ request = EmptyRequest
    /\ parse_ok = TRUE
    /\ response = EmptyResponse
    /\ ERRORS = <<>>
    /\ i = 0
    /\ text = NewStream
    /\ header = <<>>
    /\ namespaces = <<>>
    /\ it = 0
    /\ n = 0
    /\ cout = <<>>
    /\ cerr = <<>>
    /\ exit_status = "running"

file_descriptor == request.proto_file[i + 1]

locals == <<text, header, namespaces, it, n>>
outputs == <<cout, cerr, exit_status>>

\* lines 176-183: the request is read; the result of the parse is not looked at
ParseFromIstream ==
    /\ pc = "start"
    /\ \E req \in Requests, ok \in BOOLEAN :
          /\ request' = req
          /\ parse_ok' = ok
    /\ i' = 0
    /\ pc' = "loop"
    /\ UNCHANGED <<response, ERRORS, locals, outputs>>

\* lines 184-189, should_generate_for_file is false
SkipFile ==
    /\ pc = "loop"
    /\ i < Len(request.proto_file)
    /\ ~should_generate_for_file(request, file_descriptor.name)
    /\ i' = i + 1
    /\ UNCHANGED <<pc, request, parse_ok, response, ERRORS, locals, outputs>>

\* the include guard, lines 129-131
header_guard(file_descriptor_name) ==
    LET h1 == <<"A","N","D","R","O","I","D","_">>
                  \o replace_string(file_descriptor_name, "/", "_")
        h2 == replace_string(h1, ".", "_") \o <<"_","s","t","r","e","a","m","_","h">>
    IN  make_constant_name(h2)

\* lines 186-187 and write_header_file lines 124-137
WriteHeaderBegin ==
    /\ pc = "loop"
    /\ i < Len(request.proto_file)
    /\ should_generate_for_file(request, file_descriptor.name)
    /\ LET hd == header_guard(file_descriptor.name)
           t1 == Endl(Put(NewStream,
                          <<"// Generated by protoc-gen-cppstream. DO NOT MODIFY.">>))
           t2 == Endl(Endl(Put(t1, <<"// source: ">> \o file_descriptor.name)))
           t3 == Endl(Put(t2, <<"#ifndef ">> \o hd))
           t4 == Endl(Put(t3, <<"#define ">> \o hd))
       IN  /\ header' = hd
           /\ text' = Endl(t4)
    /\ namespaces' = split(file_descriptor.package, ".")
    /\ it' = 1
    /\ pc' = "open_namespaces"
    /\ UNCHANGED <<request, parse_ok, response, ERRORS, i, n, outputs>>

\* lines 138-140
OpenNamespace ==
    /\ pc = "open_namespaces"
    /\ it <= Len(namespaces)
    /\ text' = Endl(Put(text, <<"namespace ">> \o namespaces[it] \o <<" {">>))
    /\ it' = it + 1
    /\ UNCHANGED <<pc, request, parse_ok, response, ERRORS, i, header, namespaces,
                   n, outputs>>

\* lines 141-144
NamespacesOpened ==
    /\ pc = "open_namespaces"
    /\ it > Len(namespaces)
    /\ text' = Endl(text)
    /\ n' = 0
    /\ pc' = "enums"
    /\ UNCHANGED <<request, parse_ok, response, ERRORS, i, header, namespaces, it,
                   outputs>>

\* lines 145-147
WriteTopEnum ==
    /\ pc = "enums"
    /\ n < Len(file_descriptor.enum_type)
    /\ text' = write_enum(text, file_descriptor.enum_type[n + 1], <<>>)
    /\ n' = n + 1
    /\ UNCHANGED <<pc, request, parse_ok, response, ERRORS, i, header, namespaces,
                   it, outputs>>

\* line 149
EnumsWritten ==
    /\ pc = "enums"
    /\ n >= Len(file_descriptor.enum_type)
    /\ n' = 0
    /\ pc' = "messages"
    /\ UNCHANGED <<request, parse_ok, response, ERRORS, i, text, header, namespaces,
                   it, outputs>>

\* Errors.h: what the collaborators called for a message's fields may record
RecordedErrors(message) ==
    IF message.field = <<>> THEN {<<>>} ELSE {<<>>, <<"error">>}

\* lines 150-152
WriteTopMessage ==
    /\ pc = "messages"
    /\ n < Len(file_descriptor.message_type)
    /\ text' = write_message(text, file_descriptor.message_type[n + 1], <<>>)
    /\ \E errs \in RecordedErrors(file_descriptor.message_type[n + 1]) :
          ERRORS' = ERRORS \o errs
    /\ n' = n + 1
    /\ UNCHANGED <<pc, request, parse_ok, response, i, header, namespaces, it,
                   outputs>>

\* line 154: rbegin()
MessagesWritten ==
    /\ pc = "messages"
    /\ n >= Len(file_descriptor.message_type)
    /\ it' = Len(namespaces)
    /\ pc' = "close_namespaces"
    /\ UNCHANGED <<request, parse_ok, response, ERRORS, i, text, header, namespaces,
                   n, outputs>>

\* lines 154-156
CloseNamespace ==
    /\ pc = "close_namespaces"
    /\ it >= 1
    /\ text' = Endl(Put(text, <<"} // ">> \o namespaces[it]))
    /\ it' = it - 1
    /\ UNCHANGED <<pc, request, parse_ok, response, ERRORS, i, header, namespaces,
                   n, outputs>>

\* lines 161-163
set_supported_features(resp, request_parameter) ==
    IF Contains(request_parameter, FeatureToken)
    THEN [resp EXCEPT !.supported_features = FEATURE_PROTO3_OPTIONAL]
    ELSE resp

\* lines 164-166
add_file(resp, fd, content) ==
    [resp EXCEPT !.file = Append(@, [name |-> make_filename(fd), content |-> content])]

\* lines 158-167, and back in main's loop (line 184, i++)
WriteHeaderEnd ==
    /\ pc = "close_namespaces"
    /\ it < 1
    /\ LET t1 == Endl(text)
           t2 == Endl(Put(t1, <<"#endif // ">> \o header))
       IN  response' = add_file(set_supported_features(response, request.parameter),
                                file_descriptor, t2.lines)
    /\ i' = i + 1
    /\ pc' = "loop"
    /\ text' = NewStream
    /\ header' = <<>>
    /\ namespaces' = <<>>
    /\ it' = 0
    /\ n' = 0
    /\ UNCHANGED <<request, parse_ok, ERRORS, outputs>>

HasErrors == ERRORS # <<>>

\* lines 191-195
ExitWithErrors ==
    /\ pc = "loop"
    /\ i >= Len(request.proto_file)
    /\ HasErrors
    /\ cerr' = cerr \o ERRORS
    /\ exit_status' = 1
    /\ pc' = "done"
    /\ UNCHANGED <<request, parse_ok, response, ERRORS, i, locals, cout>>

\* a main that writes the response whether or not errors were recorded
SerializeToOstream_ungated ==
    /\ pc = "loop"
    /\ i >= Len(request.proto_file)
    /\ cout' = Append(cout, response)
    /\ exit_status' = 0
    /\ pc' = "done"
    /\ UNCHANGED <<request, parse_ok, response, ERRORS, i, locals, cerr>>

\* lines 197-201
SerializeToOstream ==
    /\ pc = "loop"
    /\ i >= Len(request.proto_file)
    /\ ~HasErrors
    /\ cout' = Append(cout, response)
    /\ exit_status' = 0
    /\ pc' = "done"
    /\ UNCHANGED <<request, parse_ok, response, ERRORS, i, locals, cerr>>

Next ==
    \/ ParseFromIstream
    \/ SkipFile
    \/ WriteHeaderBegin
    \/ OpenNamespace
    \/ NamespacesOpened
    \/ WriteTopEnum
    \/ EnumsWritten
    \/ WriteTopMessage
    \/ MessagesWritten
    \/ CloseNamespace
    \/ WriteHeaderEnd
    \/ ExitWithErrors
    \/ SerializeToOstream

Spec == Init /\ [][Next]_vars

(***************************************************************************)
(* Reading a rendered document back: what a consumer of the header sees.   *)
(***************************************************************************)
RECURSIVE Depth(_)
Depth(line) ==
    IF line # <<>> /\ Head(line) = INDENT THEN 1 + Depth(Tail(line)) ELSE 0

Body(line) == SubSeq(line, Depth(line) + 1, Len(line))

\* the literal a line starts with, after its indentation ("" for a blank line)
Kind(line) == IF Body(line) = <<>> THEN "" ELSE Body(line)[1]

Last(s) == s[Len(s)]

IsOpen(line) == Kind(line) = "namespace " /\ Last(line) = " {"
IsClose(line) == Kind(line) \in {"} //", "} // "}
IsMarker(line) == IsOpen(line) \/ IsClose(line)

Marker(line) ==
    IF IsOpen(line)
    THEN [open |-> TRUE, name |-> SubSeq(Body(line), 2, Len(Body(line)) - 1)]
    ELSE [open |-> FALSE, name |-> Tail(Body(line))]

\* the scope-open and scope-close markers of a document, in order
Markers(lines) ==
    LET ms == SelectSeq(lines, IsMarker) IN [k \in 1..Len(ms) |-> Marker(ms[k])]

\* a close at a point where nothing is open, or one that names another scope
\* than the innermost open one, is refused; stack is the scopes still open
RECURSIVE ScanMarkers(_, _, _)
ScanMarkers(ms, k, stack) ==
    IF k > Len(ms) THEN [ok |-> TRUE, open |-> stack]
    ELSE IF ms[k].open THEN ScanMarkers(ms, k + 1, Append(stack, ms[k].name))
    ELSE IF stack = <<>> \/ Last(stack) # ms[k].name
    THEN [ok |-> FALSE, open |-> stack]
    ELSE ScanMarkers(ms, k + 1, SubSeq(stack, 1, Len(stack) - 1))

RECURSIVE MaxOpen(_, _, _)
MaxOpen(ms, k, open) ==
    IF k > Len(ms) THEN open
    ELSE LET now == IF ms[k].open THEN open + 1 ELSE open - 1
             rest == MaxOpen(ms, k + 1, now)
         IN  IF rest > open THEN rest ELSE open

RECURSIVE Flatten(_)
Flatten(seqs) == IF seqs = <<>> THEN <<>> ELSE Head(seqs) \o Flatten(Tail(seqs))

Reverse(s) == [k \in 1..Len(s) |-> s[Len(s) + 1 - k]]

\* the descriptor tree, walked without rendering anything
RECURSIVE PreOrder(_)
PreOrder(message) ==
    <<message>> \o Flatten([k \in 1..Len(message.nested_type) |->
                               PreOrder(message.nested_type[k])])

RECURSIVE PostOrder(_)
PostOrder(message) ==
    Flatten([k \in 1..Len(message.nested_type) |->
                PostOrder(message.nested_type[k])]) \o <<message>>

FileMessagesPreOrder(fd) ==
    Flatten([k \in 1..Len(fd.message_type) |-> PreOrder(fd.message_type[k])])

FileMessagesPostOrder(fd) ==
    Flatten([k \in 1..Len(fd.message_type) |-> PostOrder(fd.message_type[k])])

\* a message's enums come before those of its nested messages
RECURSIVE EnumsOf(_)
EnumsOf(message) ==
    message.enum_type \o Flatten([k \in 1..Len(message.nested_type) |->
                                     EnumsOf(message.nested_type[k])])

FileEnums(fd) ==
    fd.enum_type \o Flatten([k \in 1..Len(fd.message_type) |->
                                EnumsOf(fd.message_type[k])])

FileFields(fd) ==
    LET ms == FileMessagesPostOrder(fd) IN Flatten([k \in 1..Len(ms) |-> ms[k].field])

\* package-path segments: the non-empty parts between dots
Segments(fd) == split(fd.package, ".")

\* the files of the request a document is generated for, in request order
IsEligible(fd) == should_generate_for_file(request, fd.name)
Eligible == SelectSeq(request.proto_file, IsEligible)

\* the documents built so far and the file each was built from
Documents == response.file
SourceOf(k) == Eligible[k]

Finished == pc = "done"

(***************************************************************************)
(* The driver: what reaches the output channel.                            *)
(***************************************************************************)
\* C1: when main returns with a non-empty error log, nothing was written to
\* the output channel and the exit status is non-zero, however many documents
\* were built; the response is written, with exit status 0, exactly when the
\* log is empty.  Nothing is written before main returns.
C1_AllOrNothing ==
    /\ ~Finished => cout = <<>> /\ exit_status = "running"
    /\ Finished /\ ERRORS # <<>> => cout = <<>> /\ exit_status = 1
    /\ Finished /\ ERRORS = <<>> => cout = <<response>> /\ exit_status = 0

\* errors were recorded after a document had been built; the run has ended
C1_Witness ==
    /\ parse_ok
    /\ Finished
    /\ ERRORS # <<>>
    /\ Len(response.file) >= 1
    /\ cout = <<>>
    /\ exit_status = 1

\* C2: when deserialization of the request fails, no document is built,
\* nothing is written to the output channel and the run ends in failure.
C2_ParseFailureBlocksGeneration ==
    ~parse_ok =>
        /\ response.file = <<>>
        /\ cout = <<>>
        /\ Finished => exit_status = 1

\* C3: at the end of the run the capability flag of the response is set
\* exactly when the request parameter contains the feature token, whatever
\* the number of eligible files (stated for the requests that parsed).
C3_CapabilityFollowsParameter ==
    Finished /\ parse_ok =>
        (response.supported_features = FEATURE_PROTO3_OPTIONAL
             <=> Contains(request.parameter, FeatureToken))

\* C4: in a run without recorded errors the response written holds one
\* document per eligible file, in request order, named the file's name
\* followed by ".h" and rendered from that file; a file that is not
\* eligible has none; with no eligible file the run succeeds with an empty
\* response.
C4_Selection ==
    Finished /\ ERRORS = <<>> =>
        /\ Len(cout) = 1
        /\ Len(cout[1].file) = Len(Eligible)
        /\ \A k \in 1..Len(Eligible) :
              /\ cout[1].file[k].name = Eligible[k].name \o <<".", "h">>
              /\ cout[1].file[k].content[2] = <<"// source: ">> \o Eligible[k].name
        /\ Eligible = <<>> => cout[1].file = <<>> /\ exit_status = 0

\* a successful run that skipped one file and rendered another
C4_Witness ==
    /\ parse_ok
    /\ Finished
    /\ ERRORS = <<>>
    /\ Len(request.proto_file) = 2
    /\ Len(Eligible) = 1
    /\ Len(cout) = 1
    /\ Len(cout[1].file) = 1

(***************************************************************************)
(* The scopes of a rendered document.                                      *)
(***************************************************************************)
OpenOf(name) == [open |-> TRUE, name |-> name]
CloseOf(name) == [open |-> FALSE, name |-> name]

\* the markers the message tree calls for: a scope per message, opened in
\* pre-order, the nested messages' scopes inside their parent's
RECURSIVE MessageScopes(_)
MessageScopes(message) ==
    <<OpenOf(message.name)>>
        \o Flatten([k \in 1..Len(message.nested_type) |->
                       MessageScopes(message.nested_type[k])])
        \o <<CloseOf(message.name)>>

FileScopes(fd) ==
    LET segs == Segments(fd) IN
    [k \in 1..Len(segs) |-> OpenOf(segs[k])]
        \o Flatten([k \in 1..Len(fd.message_type) |->
                       MessageScopes(fd.message_type[k])])
        \o [k \in 1..Len(segs) |-> CloseOf(Reverse(segs)[k])]

\* C5: the scope markers of every rendered document are those of its file:
\* the package segments in order, then every message in pre-order under its
\* own name, nested inside its parent; every scope opened is closed,
\* innermost first; no prefix of a document, finished or being written,
\* closes more than it opened.
C5_RoundTripScoping ==
    /\ \A k \in 1..Len(Documents) :
          LET ms == Markers(Documents[k].content) IN
          /\ ms = FileScopes(SourceOf(k))
          /\ ScanMarkers(ms, 1, <<>>) = [ok |-> TRUE, open |-> <<>>]
    /\ ScanMarkers(Markers(text.lines), 1, <<>>).ok

\* a document with two package scopes and a message nested in a message
C5_Witness ==
    \E k \in 1..Len(Documents) :
        /\ Len(Segments(SourceOf(k))) = 2
        /\ MaxOpen(Markers(Documents[k].content), 1, 0) >= 4
        /\ \E m \in Range(SourceOf(k).message_type) : Len(m.nested_type) = 2

RECURSIVE BagOfSeq(_)
BagOfSeq(s) == IF s = <<>> THEN EmptyBag ELSE SetToBag({Head(s)}) (+) BagOfSeq(Tail(s))

NamesOf(s) == [k \in 1..Len(s) |-> s[k].name]

OpenedScopes(lines) == NamesOf(SelectSeq(Markers(lines), LAMBDA m : m.open))

EnumHeaders(lines) == SelectSeq(lines, LAMBDA line : Kind(line) = "// enum ")

\* the line numbers of a document that start an enum
EnumStarts(lines) == {p \in 1..Len(lines) : Kind(lines[p]) = "// enum "}

\* the first blank line after line p
BlockEnd(lines, p) ==
    CHOOSE q \in (p + 1)..Len(lines) :
        /\ lines[q] = <<>>
        /\ \A r \in (p + 1)..(q - 1) : lines[r] # <<>>

\* C6 as claimed: every package segment, every message and every enum has
\* a named scope of its own, and there is no other scope.
C6_ScopePerDeclaration ==
    \A k \in 1..Len(Documents) :
        BagOfSeq(OpenedScopes(Documents[k].content))
            = BagOfSeq(Segments(SourceOf(k)))
                  (+) BagOfSeq(NamesOf(FileMessagesPreOrder(SourceOf(k))))
                  (+) BagOfSeq(NamesOf(FileEnums(SourceOf(k))))

\* C6 as the code has it: the scopes of a document are its package segments
\* and its messages, one each and no other; an enum opens no scope: it is
\* announced by a comment line naming it, and its constants and tables
\* follow at that line's indent, in the scope that encloses the enum.
C6_ScopePerSegmentAndMessage ==
    \A k \in 1..Len(Documents) :
        LET lines == Documents[k].content IN
        /\ BagOfSeq(OpenedScopes(lines))
               = BagOfSeq(Segments(SourceOf(k)))
                     (+) BagOfSeq(NamesOf(FileMessagesPreOrder(SourceOf(k))))
        /\ [j \in 1..Len(EnumHeaders(lines)) |-> Tail(Body(EnumHeaders(lines)[j]))]
               = NamesOf(FileEnums(SourceOf(k)))
        /\ \A p \in EnumStarts(lines) :
              \A r \in (p + 1)..(BlockEnd(lines, p) - 1) :
                  /\ ~IsMarker(lines[r])
                  /\ Depth(lines[r]) >= Depth(lines[p])
                  /\ Kind(lines[r]) \in {"const int ", "static const int _ENUM_",
                                         "static const char* _ENUM_", "};"}
                         => Depth(lines[r]) = Depth(lines[p])

\* a document with a top-level enum and an enum nested in a message
C6_Witness ==
    \E k \in 1..Len(Documents) :
        /\ SourceOf(k).enum_type # <<>>
        /\ Len(FileEnums(SourceOf(k))) >= 2
        /\ Len(Segments(SourceOf(k))) >= 1
        /\ \E p \in EnumStarts(Documents[k].content) :
              Kind(Documents[k].content[p + 1]) = "const int "

(***************************************************************************)
(* The reflection tables of a rendered document.                           *)
(***************************************************************************)
Indices(s) == [k \in 1..Len(s) |-> k]

\* the numbers of the lines that start with the literal kind, ascending
LinesOfKind(lines, kind) == SelectSeq(Indices(lines), LAMBDA p : Kind(lines[p]) = kind)

First(line, atom) ==
    CHOOSE k \in 1..Len(line) : line[k] = atom /\ \A j \in 1..(k - 1) : line[j] # atom

Has(line, atom) == \E k \in 1..Len(line) : line[k] = atom

\* what stands between the first atom a and the first atom b after it
Between(line, a, b) ==
    LET from == First(line, a)
        rest == SubSeq(line, from + 1, Len(line))
    IN  SubSeq(rest, 1, First(rest, b) - 1)

DecimalDigits == {HexDigits[k] : k \in 1..10}

IsDecimal(digits) ==
    /\ digits # <<>>
    /\ \A k \in 1..Len(digits) : digits[k] \in DecimalDigits

RECURSIVE DecimalValue(_)
DecimalValue(digits) ==
    IF digits = <<>> THEN 0
    ELSE 10 * DecimalValue(SubSeq(digits, 1, Len(digits) - 1))
             + (IndexIn(HexDigits, Last(digits)) - 1)

\* a decimal literal, with or without a sign
IsInteger(digits) ==
    IF digits # <<>> /\ Head(digits) = "-" THEN IsDecimal(Tail(digits))
    ELSE IsDecimal(digits)

IntegerValue(digits) ==
    IF Head(digits) = "-" THEN 0 - DecimalValue(Tail(digits)) ELSE DecimalValue(digits)

\* the line that closes the table whose first line is h
TableEnd(lines, h) ==
    CHOOSE q \in (h + 1)..Len(lines) :
        /\ Kind(lines[q]) = "};"
        /\ \A r \in (h + 1)..(q - 1) : Kind(lines[r]) # "};"

\* the entries of the table whose first line is h
TableEntries(lines, h) == SubSeq(lines, h + 1, TableEnd(lines, h) - 1)

\* the one line of lines[from..to] that holds the atom
LineWith(lines, from, to, atom) == CHOOSE r \in from..to : Has(lines[r], atom)

\* what a consumer reads of the enum that starts at line p
EnumBlock(lines, p) ==
    LET q == BlockEnd(lines, p)
        consts == SelectSeq(SubSeq(lines, p + 1, q - 1),
                            LAMBDA line : Kind(line) = "const int ")
        cnt == lines[LineWith(lines, p, q, "_COUNT = ")]
        hn == LineWith(lines, p, q, "_NAMES[")
        hv == LineWith(lines, p, q, "_VALUES[")
    IN  [name |-> Tail(Body(lines[p])),
         constants |-> [k \in 1..Len(consts) |->
                           [name |-> Between(consts[k], "const int ", " = "),
                            number |-> Between(consts[k], " = ", ";")]],
         count |-> Between(cnt, "_COUNT = ", ";"),
         names_size |-> Between(lines[hn], "_NAMES[", "] = {"),
         names |-> [k \in 1..Len(TableEntries(lines, hn)) |->
                       Between(TableEntries(lines, hn)[k], "\"", "\",")],
         values_size |-> Between(lines[hv], "_VALUES[", "] = {"),
         values |-> [k \in 1..Len(TableEntries(lines, hv)) |->
                        LET b == Body(TableEntries(lines, hv)[k])
                        IN  SubSeq(b, 1, Len(b) - 1)],
         order |-> <<hn, TableEnd(lines, hn), hv, TableEnd(lines, hv)>>]

IsSize(digits, N) == IsDecimal(digits) /\ DecimalValue(digits) = N

\* C7: for every enum with N declared values the document holds a count
\* constant equal to N, a display-name table of N entries and a values table
\* of N entries; entry i of the name table is the i-th declared value's name
\* without the prefix (the enum's constant name and "_"), entry i of the
\* values table is the constant generated for the i-th declared value, and
\* that constant is given the declared number unchanged.
C7_EnumReflectionTables ==
    \A k \in 1..Len(Documents) :
        LET lines == Documents[k].content
            starts == LinesOfKind(lines, "// enum ")
            enums == FileEnums(SourceOf(k))
        IN  /\ Len(starts) = Len(enums)
            /\ \A j \in 1..Len(enums) :
                  LET enu == enums[j]
                      N == Len(enu.value)
                      blk == EnumBlock(lines, starts[j])
                      prefix == make_constant_name(enu.name) \o <<"_">>
                  IN  /\ blk.name = enu.name
                      /\ IsSize(blk.count, N)
                      /\ IsSize(blk.names_size, N)
                      /\ IsSize(blk.values_size, N)
                      /\ Len(blk.constants) = N
                      /\ Len(blk.names) = N
                      /\ Len(blk.values) = N
                      /\ \A c \in 1..N :
                            /\ blk.names[c] = stripPrefix(enu.value[c].name, prefix)
                            /\ blk.values[c] = blk.constants[c].name
                            /\ blk.constants[c].name = make_constant_name(enu.value[c].name)
                            /\ IsInteger(blk.constants[c].number)
                            /\ IntegerValue(blk.constants[c].number) = enu.value[c].number

\* a rendered enum with three values, two of them equal and out of order,
\* one of them without the prefix
C7_Witness ==
    \E k \in 1..Len(Documents) :
        \E j \in 1..Len(FileEnums(SourceOf(k))) :
            LET enu == FileEnums(SourceOf(k))[j]
                blk == EnumBlock(Documents[k].content,
                                 LinesOfKind(Documents[k].content, "// enum ")[j])
            IN  /\ Len(enu.value) >= 3
                /\ enu.value[1].number = enu.value[3].number
                /\ enu.value[2].number < enu.value[1].number
                /\ blk.names[1] # enu.value[1].name
                /\ blk.names[2] = enu.value[2].name
                /\ Len(blk.values) = Len(enu.value)

\* the lines before line c that declare the fields of the message whose
\* field count stands in line c: comment and constant pairs at c's indent
FieldRunStart(lines, c) ==
    CHOOSE s \in 1..c :
        /\ \A r \in s..(c - 1) :
              \/ lines[r] = <<>>
              \/ /\ Depth(lines[r]) = Depth(lines[c])
                 /\ Kind(lines[r]) \in {"// ", "const uint64_t "}
        /\ s > 1 => ~ \/ lines[s - 1] = <<>>
                      \/ /\ Depth(lines[s - 1]) = Depth(lines[c])
                         /\ Kind(lines[s - 1]) \in {"// ", "const uint64_t "}

\* what a consumer reads of the message whose field count stands in line c
FieldBlock(lines, c) ==
    LET decls == SelectSeq(SubSeq(lines, FieldRunStart(lines, c), c - 1),
                           LAMBDA line : Kind(line) = "const uint64_t ")
        hn == c + 1
        hi == TableEnd(lines, hn) + 1
    IN  [constants |-> [k \in 1..Len(decls) |->
                           Between(decls[k], "const uint64_t ", " = 0x")],
         count |-> Between(lines[c], "static const int _FIELD_COUNT = ", ";"),
         names_kind |-> Kind(lines[hn]),
         names_size |-> Between(lines[hn], "static const char* _FIELD_NAMES[", "] = {"),
         names |-> [k \in 1..Len(TableEntries(lines, hn)) |->
                       Between(TableEntries(lines, hn)[k], "\"", "\",")],
         ids_kind |-> Kind(lines[hi]),
         ids_size |-> Between(lines[hi], "static const uint64_t _FIELD_IDS[", "] = {"),
         ids |-> [k \in 1..Len(TableEntries(lines, hi)) |->
                     LET b == Body(TableEntries(lines, hi)[k])
                     IN  SubSeq(b, 1, Len(b) - 1)]]

\* C8: for every message with N declared fields, N = 0 included, the
\* document holds a field count equal to N, a field-name table of N entries
\* and a field-ID table of N entries; entry i of the name table is the i-th
\* declared field's name and entry i of the ID table is the constant that
\* was declared for the i-th field.
C8_FieldReflectionTables ==
    \A k \in 1..Len(Documents) :
        LET lines == Documents[k].content
            counts == LinesOfKind(lines, "static const int _FIELD_COUNT = ")
            messages == FileMessagesPostOrder(SourceOf(k))
        IN  /\ Len(counts) = Len(messages)
            /\ \A j \in 1..Len(messages) :
                  LET N == Len(messages[j].field)
                      blk == FieldBlock(lines, counts[j])
                  IN  /\ IsSize(blk.count, N)
                      /\ blk.names_kind = "static const char* _FIELD_NAMES["
                      /\ blk.ids_kind = "static const uint64_t _FIELD_IDS["
                      /\ IsSize(blk.names_size, N)
                      /\ IsSize(blk.ids_size, N)
                      /\ Len(blk.constants) = N
                      /\ Len(blk.names) = N
                      /\ Len(blk.ids) = N
                      /\ \A c \in 1..N :
                            /\ blk.names[c] = messages[j].field[c].name
                            /\ blk.ids[c] = blk.constants[c]
                            /\ blk.constants[c]
                                   = make_constant_name(messages[j].field[c].name)

\* a document with a message without fields and a message with two fields
\* or more, whose tables were read back
C8_Witness ==
    \E k \in 1..Len(Documents) :
        LET lines == Documents[k].content
            counts == LinesOfKind(lines, "static const int _FIELD_COUNT = ")
            messages == FileMessagesPostOrder(SourceOf(k))
        IN  /\ \E j \in 1..Len(messages) :
                  /\ messages[j].field = <<>>
                  /\ FieldBlock(lines, counts[j]).ids = <<>>
            /\ \E j \in 1..Len(messages) :
                  /\ Len(messages[j].field) >= 2
                  /\ Len(FieldBlock(lines, counts[j]).ids) >= 2
                  /\ FieldBlock(lines, counts[j]).ids[1]
                         # FieldBlock(lines, counts[j]).ids[2]

(***************************************************************************)
(* The field constants of a rendered document.                             *)
(***************************************************************************)
\* the digits of the constant declared in a "const uint64_t" line
IdDigits(line) == SubSeq(line, First(line, " = 0x") + 1, Len(line) - 1)

\* the literal that ends the declaration: the integer suffix and the ';'
IdSuffix(line) == Last(line)

\* the number a field's comment line gives after " = "
CommentNumber(line) ==
    LET rest == SubSeq(line, First(line, " = ") + 1, Len(line))
        stop == CHOOSE k \in 1..Len(rest) :
                    /\ rest[k] \in {";", " [packed=true]"}
                    /\ \A j \in 1..(k - 1) : rest[j] \notin {";", " [packed=true]"}
    IN  SubSeq(rest, 1, stop - 1)

\* the suffixes (with the ';') that make a C++ literal unsigned and 64 bits
UnsignedSuffixes == {"ULL;", "LLU;", "ull;", "llu;", "uLL;", "LLu;", "Ull;", "llU;",
                     "UL;", "LU;", "ul;", "lu;"}

\* the suffix of a signed long long literal
SignedSuffixes == {"LL;"}

FieldConstants(suffixes) ==
    /\ text.flags = NewStream.flags
    /\ \A k \in 1..Len(Documents) :
          LET lines == Documents[k].content
              decls == LinesOfKind(lines, "const uint64_t ")
              notes == LinesOfKind(lines, "// ")
              counts == LinesOfKind(lines, "static const int _FIELD_COUNT = ")
              fields == FileFields(SourceOf(k))
              messages == FileMessagesPostOrder(SourceOf(k))
          IN  /\ Len(decls) = Len(fields)
              /\ Len(notes) = Len(fields)
              /\ \A j \in 1..Len(fields) :
                    LET id == get_field_id(fields[j])
                        digits == IdDigits(lines[decls[j]])
                    IN  /\ Len(digits) = 16
                        /\ \A c \in 1..16 : digits[c] \in Range(HexDigits)
                        /\ digits = Hex8(id.hi) \o Hex8(id.lo)
                        /\ IdSuffix(lines[decls[j]]) \in suffixes
                        /\ decls[j] = notes[j] + 1
                        /\ IsDecimal(CommentNumber(lines[notes[j]]))
                        /\ DecimalValue(CommentNumber(lines[notes[j]]))
                               = fields[j].number
              /\ \A j \in 1..Len(counts) :
                    IsSize(Between(lines[counts[j]],
                                   "static const int _FIELD_COUNT = ", ";"),
                           Len(messages[j].field))

\* C9 as claimed: every field constant is given as 16 zero-padded hex digits
\* after 0x, followed by a suffix that marks the literal as 64-bit and
\* unsigned; the stream's formatting flags are after write_field what they
\* were before, and the decimal output that follows is decimal.
C9_UnsignedSuffix == FieldConstants(UnsignedSuffixes)

\* C9 as the code has it: the same, but the suffix is LL, that of a signed
\* long long; only the declared type, uint64_t, makes the constant unsigned.
C9_FieldConstantFormat == FieldConstants(SignedSuffixes)

\* a document where a field with a number above nine, whose comment gives
\* it in decimal, follows another field's hexadecimal constant
C9_Witness ==
    \E k \in 1..Len(Documents) :
        LET lines == Documents[k].content
            decls == LinesOfKind(lines, "const uint64_t ")
            notes == LinesOfKind(lines, "// ")
            fields == FileFields(SourceOf(k))
        IN  \E j \in 2..Len(fields) :
                /\ fields[j].number = 16
                /\ CommentNumber(lines[notes[j]]) = <<"1", "6">>
                /\ decls[j - 1] < notes[j]
                /\ SubSeq(IdDigits(lines[decls[j]]), 15, 16) = <<"1", "0">>
                /\ IdSuffix(lines[decls[j]]) = "LL;"

(***************************************************************************)
(* The order of emission inside a message.                                 *)
(***************************************************************************)
\* the lines that open a message's scope: "namespace" after "// message"
MessageOpens(lines) ==
    SelectSeq(Indices(lines),
              LAMBDA p : /\ p > 1
                         /\ Kind(lines[p]) = "namespace "
                         /\ Kind(lines[p - 1]) = "// message ")

SeqRange(a, b) == [k \in 1..(b - a + 1) |-> a + k - 1]

Min(S) == CHOOSE x \in S : \A y \in S : x <= y

\* the line that closes the scope opened in line p
ScopeEnd(lines, p) ==
    LET d == Depth(lines[p]) IN
    Min({q \in (p + 1)..Len(lines) : Kind(lines[q]) = "} //" /\ Depth(lines[q]) = d})

\* the lines between p and its close q that carry one indent unit more than p
DirectLines(lines, p, q) ==
    LET d == Depth(lines[p]) + 1 IN
    SelectSeq(SeqRange(p + 1, q - 1),
              LAMBDA r : lines[r] # <<>> /\ Depth(lines[r]) = d)

\* what a line is: its leading literal, the two enum tables told apart
Token(line) ==
    IF Kind(line) = "static const int _ENUM_"
    THEN (IF Has(line, "_COUNT = ") THEN "enum count" ELSE "enum values")
    ELSE Kind(line)

\* The grammar of a message's body:
\*   (enum)* (message)* (field)* tables, with
\*   enum    = "// enum " ("const int ")* count names "};" values "};"
\*   message = "// message " "namespace " "} //"
\*   field   = "// " "const uint64_t "
\*   tables  = count names "};" ids "};"
RECURSIVE Accepts(_, _, _)
Accepts(toks, k, phase) ==
    IF k > Len(toks) THEN phase = "end"
    ELSE LET t == toks[k] IN
         CASE phase = "enums" ->
                  IF t = "// enum " THEN Accepts(toks, k + 1, "constants")
                  ELSE Accepts(toks, k, "messages")
           [] phase = "constants" ->
                  IF t = "const int " THEN Accepts(toks, k + 1, "constants")
                  ELSE t = "enum count" /\ Accepts(toks, k + 1, "enum names")
           [] phase = "enum names" ->
                  t = "static const char* _ENUM_" /\ Accepts(toks, k + 1, "names end")
           [] phase = "names end" ->
                  t = "};" /\ Accepts(toks, k + 1, "enum values")
           [] phase = "enum values" ->
                  t = "enum values" /\ Accepts(toks, k + 1, "values end")
           [] phase = "values end" ->
                  t = "};" /\ Accepts(toks, k + 1, "enums")
           [] phase = "messages" ->
                  IF t = "// message " THEN Accepts(toks, k + 1, "open")
                  ELSE Accepts(toks, k, "fields")
           [] phase = "open" ->
                  t = "namespace " /\ Accepts(toks, k + 1, "close")
           [] phase = "close" ->
                  t = "} //" /\ Accepts(toks, k + 1, "messages")
           [] phase = "fields" ->
                  IF t = "// " THEN Accepts(toks, k + 1, "constant")
                  ELSE Accepts(toks, k, "field count")
           [] phase = "constant" ->
                  t = "const uint64_t " /\ Accepts(toks, k + 1, "fields")
           [] phase = "field count" ->
                  t = "static const int _FIELD_COUNT = "
                      /\ Accepts(toks, k + 1, "field names")
           [] phase = "field names" ->
                  t = "static const char* _FIELD_NAMES["
                      /\ Accepts(toks, k + 1, "field names end")
           [] phase = "field names end" ->
                  t = "};" /\ Accepts(toks, k + 1, "field ids")
           [] phase = "field ids" ->
                  t = "static const uint64_t _FIELD_IDS["
                      /\ Accepts(toks, k + 1, "field ids end")
           [] phase = "field ids end" ->
                  t = "};" /\ Accepts(toks, k + 1, "end")
           [] OTHER -> FALSE

\* the names the direct lines of the given kind carry, in order
DirectNames(lines, direct, kind, until) ==
    LET ds == SelectSeq(direct, LAMBDA r : Kind(lines[r]) = kind)
    IN  [k \in 1..Len(ds) |-> Between(lines[ds[k]], kind, until)]

\* the order of a message's body, and the declarations it was written from
EmissionOrder(lines, direct, message) ==
    /\ Accepts([k \in 1..Len(direct) |-> Token(lines[direct[k]])], 1, "enums")
    /\ LET es == SelectSeq(direct, LAMBDA r : Kind(lines[r]) = "// enum ")
       IN  [k \in 1..Len(es) |-> Tail(Body(lines[es[k]]))] = NamesOf(message.enum_type)
    /\ DirectNames(lines, direct, "namespace ", " {") = NamesOf(message.nested_type)
    /\ DirectNames(lines, direct, "const uint64_t ", " = 0x")
           = [k \in 1..Len(message.field) |-> make_constant_name(message.field[k].name)]

\* the direct line that follows the direct line h
NextDirect(direct, h) == Min({r \in Range(direct) : r > h})

\* the lines strictly inside the scope of a message nested in the message
\* whose direct lines are given: between its open and its close
NestedLines(lines, direct) ==
    UNION { (o + 1)..(NextDirect(direct, o) - 1) :
                o \in {r \in Range(direct) : Kind(lines[r]) = "namespace "} }

\* the entries of the two tables of the enums nested in the message
EnumEntries(lines, direct) ==
    UNION { (h + 1)..(NextDirect(direct, h) - 1) :
                h \in {r \in Range(direct) :
                           Kind(lines[r]) \in {"static const char* _ENUM_",
                                               "static const int _ENUM_"}
                               /\ Last(lines[r]) = "] = {"} }

\* the first line of the message's own field tables
TablesStart(lines, direct) ==
    Min({c \in Range(direct) : Kind(lines[c]) = "static const int _FIELD_COUNT = "})

\* the lines written for the nested enums, for the nested messages' own
\* scope lines and for the fields of the message opened in line p
ItemLines(lines, p, direct) ==
    {r \in (p + 1)..(TablesStart(lines, direct) - 1) : lines[r] # <<>>}
        \ NestedLines(lines, direct)

\* C10 as claimed: inside every message, at every depth, the scope open is
\* followed by the nested enums, then the nested messages, then the fields,
\* each in declaration order, then the field count and the two tables, then
\* the scope close; and every line written for a nested enum, a nested
\* message or a field carries exactly one indent unit more than the line
\* that opens the message's scope.
C10_OneMoreIndentUnit ==
    \A k \in 1..Len(Documents) :
        LET lines == Documents[k].content
            opens == MessageOpens(lines)
            messages == FileMessagesPreOrder(SourceOf(k))
        IN  /\ Len(opens) = Len(messages)
            /\ \A j \in 1..Len(messages) :
                  LET p == opens[j]
                      direct == DirectLines(lines, p, ScopeEnd(lines, p))
                  IN  /\ EmissionOrder(lines, direct, messages[j])
                      /\ \A r \in ItemLines(lines, p, direct) :
                            Depth(lines[r]) = Depth(lines[p]) + 1

\* C10 as the code has it: the same order; the lines written for a nested
\* enum, a nested message or a field carry one indent unit more than the
\* line that opens the message's scope, except the entries of a nested
\* enum's two tables, which carry two more, and the blank lines, which
\* carry none; nothing between the scope's open and close carries less.
C10_EmissionOrder ==
    \A k \in 1..Len(Documents) :
        LET lines == Documents[k].content
            opens == MessageOpens(lines)
            messages == FileMessagesPreOrder(SourceOf(k))
        IN  /\ Len(opens) = Len(messages)
            /\ \A j \in 1..Len(messages) :
                  LET p == opens[j]
                      q == ScopeEnd(lines, p)
                      d == Depth(lines[p])
                      direct == DirectLines(lines, p, q)
                      entries == EnumEntries(lines, direct)
                  IN  /\ EmissionOrder(lines, direct, messages[j])
                      /\ \A r \in (p + 1)..(q - 1) :
                            lines[r] = <<>> \/ Depth(lines[r]) >= d + 1
                      /\ \A r \in ItemLines(lines, p, direct) :
                            Depth(lines[r]) = IF r \in entries THEN d + 2 ELSE d + 1

\* a document with a message that has a nested enum with values, two nested
\* messages and two fields or more
C10_Witness ==
    \E k \in 1..Len(Documents) :
        LET lines == Documents[k].content
            opens == MessageOpens(lines)
            messages == FileMessagesPreOrder(SourceOf(k))
        IN  \E j \in 1..Len(messages) :
                LET p == opens[j]
                    direct == DirectLines(lines, p, ScopeEnd(lines, p))
                IN  /\ messages[j].enum_type # <<>>
                    /\ messages[j].enum_type[1].value # <<>>
                    /\ Len(messages[j].nested_type) >= 2
                    /\ Len(messages[j].field) >= 2
                    /\ Depth(lines[p]) = 0
                    /\ ItemLines(lines, p, direct) \cap EnumEntries(lines, direct) # {}
                    /\ \E r \in ItemLines(lines, p, direct) : Depth(lines[r]) = 1

=============================================================================
